---- MODULE Spec2Model ----
(***************************************************************************)
(* Terminal Minesweeper (main.c): the field, deferred mine placement with  *)
(* the first-move retry loop, the open/flag cell state machine, and the    *)
(* game loop of runGame with performAction's return value.                 *)
(***************************************************************************)
EXTENDS Integers, FiniteSets, Sequences, TLC

\* ------------------------------------------------------------ bounds
\* Grids are rows x cols with rows <= MaxRows, cols <= MaxCols and
\* rows * cols <= MaxCells.
MaxRows == 2
MaxCols == 4
MaxCells == 6

\* ------------------------------------------------------------ constants
MAX_MINE_PERCENTAGE == 50
MINE_PERCENTAGE == 20

\* size_t arithmetic wraps modulo SIZE_MODULUS.  The build's size_t is 64 bits
\* wide; the model keeps the wrap-around with a modulus that fits the checker's
\* integers and still exceeds every grid dimension.
SIZE_MODULUS == 2 ^ 30

\* typedef enum { EMPTY, MINE } Cell;
EMPTY == "EMPTY"
MINE == "MINE"
\* typedef enum { OPEN, CLOSED, FLAGGED } CellState;
OPEN == "OPEN"
CLOSED == "CLOSED"
FLAGGED == "FLAGGED"

\* The value of runGame's `action` before the first read.
NUL == "NUL"

\* Mine percentages a game is configured with: none, the shipped value, one
\* between it and the ceiling, the ceiling, and one above the ceiling.
Percentages ==
    {0, MINE_PERCENTAGE, 40, MAX_MINE_PERCENTAGE, MAX_MINE_PERCENTAGE + 1}

\* Grid shapes within the bound.
Dimensions == {d \in (1..MaxRows) \X (1..MaxCols) : d[1] * d[2] <= MaxCells}

\* Bytes the terminal can deliver.
InputBytes == {"w", "s", "a", "d", " ", "f", "q", "W", "S", "A", "D", "F", "Q"}

VARIABLES
    rows, cols,           \* Field.rows, Field.cols
    minePercentage,       \* runGame's MINE_PERCENTAGE argument
    cells,                \* Field.cells, indexed 0 .. rows*cols-1
    states,               \* Field.states
    cursorRow, cursorCol, \* Field.cursorRow, Field.cursorCol
    numMines, numClosed,  \* Field.numMines, Field.numClosed
    first,                \* runGame's `first`
    running,              \* runGame's `running`
    action,               \* runGame's `action` (after tolower)
    pc,                   \* "loop", "act", "generate", "done", "error"
    eof,                  \* standard input is closed: read delivers no byte
    prevStates            \* Field.states on entry to the last performAction

vars == <<rows, cols, minePercentage, cells, states, cursorRow, cursorCol,
          numMines, numClosed, first, running, action, pc, eof,
          prevStates>>

\* ------------------------------------------------------------ helpers
\* tolower(action)
tolower(b) ==
    CASE b = "W" -> "w"
      [] b = "S" -> "s"
      [] b = "A" -> "a"
      [] b = "D" -> "d"
      [] b = "F" -> "f"
      [] b = "Q" -> "q"
      [] OTHER -> b

Indices == 0 .. (rows * cols - 1)

\* row * field.cols + col, the index cellAtIndex and stateAtIndex both use
cellAtIndex(row, col) == row * cols + col

Cursor == cellAtIndex(cursorRow, cursorCol)

\* The sum kept signed, without the wrap-around of size_t.
SizeAddSigned(x, delta) == x + delta

\* size_t curr = row + delta, with delta an int in -1 .. 1
SizeAdd(x, delta) == (x + delta + SIZE_MODULUS) % SIZE_MODULUS

Deltas == {-1, 0, 1}

\* The (row, col) pairs countNeighborMines hands to cellAtIndex: the neighbours
\* that pass its test curr_col >= field.cols || curr_row >= field.rows.
NeighborCalls(row, col) ==
    {<<SizeAdd(row, d[1]), SizeAdd(col, d[2])>> : d \in
        {e \in Deltas \X Deltas :
            /\ ~(e[1] = 0 /\ e[2] = 0)
            /\ ~(SizeAdd(col, e[2]) >= cols \/ SizeAdd(row, e[1]) >= rows)}}

\* countNeighborMines without the skip of the middle square.
countNeighborMinesWithCenter(c, row, col) ==
    Cardinality({d \in Deltas \X Deltas :
        /\ ~(SizeAdd(col, d[2]) >= cols \/ SizeAdd(row, d[1]) >= rows)
        /\ c[cellAtIndex(SizeAdd(row, d[1]), SizeAdd(col, d[2]))] = MINE})

countNeighborMines(c, row, col) ==
    Cardinality({d \in Deltas \X Deltas :
        /\ ~(d[1] = 0 /\ d[2] = 0)
        /\ ~(SizeAdd(col, d[2]) >= cols \/ SizeAdd(row, d[1]) >= rows)
        /\ c[cellAtIndex(SizeAdd(row, d[1]), SizeAdd(col, d[2]))] = MINE})

\* rows * cols * minePercentage / 100
MineCount(p) == (rows * cols * p) \div 100

\* generateMines without the retry on a cell that is already a mine.
FreeCellsNoRetry(c) == Indices

\* The cells the inner do-while of generateMines can settle on: any (row, col)
\* whose cell is not yet a mine.
FreeCells(c) == {i \in Indices : c[i] # MINE}

\* The fields generateMines can leave after placing mines number i+1 .. n.
RECURSIVE PlaceMines(_, _, _)
PlaceMines(c, i, n) ==
    IF i >= n THEN {c}
    ELSE UNION {PlaceMines([j \in Indices |-> IF j = k THEN MINE ELSE c[j]], i + 1, n) :
                    k \in FreeCells(c)}

\* generateMines past the percentage check: reset to EMPTY, then place.
generateMines(p) == PlaceMines([i \in Indices |-> EMPTY], 0, MineCount(p))

\* generateAtCursor retrying only while the cursor cell itself is a mine.
RetryPlacementMineOnly(c) == c[Cursor] = MINE

\* The loop condition of generateAtCursor: hasMineNeighbors || isMine.
RetryPlacement(c) ==
    \/ countNeighborMines(c, cursorRow, cursorCol) # 0
    \/ c[Cursor] = MINE

\* openAtCursor without the test for CLOSED.
openAtCursorUnchecked(s, c, n) ==
    [states |-> [s EXCEPT ![Cursor] = OPEN], numClosed |-> n - 1, cell |-> c[Cursor]]

\* openAtCursor without the decrement of numClosed.
openAtCursorNoCount(s, c, n) ==
    IF s[Cursor] = CLOSED
    THEN [states |-> [s EXCEPT ![Cursor] = OPEN], numClosed |-> n, cell |-> c[Cursor]]
    ELSE [states |-> s, numClosed |-> n, cell |-> EMPTY]

\* openAtCursor: the new states, the new numClosed and the returned content.
openAtCursor(s, c, n) ==
    IF s[Cursor] = CLOSED
    THEN [states |-> [s EXCEPT ![Cursor] = OPEN], numClosed |-> n - 1, cell |-> c[Cursor]]
    ELSE [states |-> s, numClosed |-> n, cell |-> EMPTY]

\* flagAtCursor that sets a flag but never clears one.
flagAtCursorSetOnly(s) ==
    IF s[Cursor] = CLOSED THEN [s EXCEPT ![Cursor] = FLAGGED] ELSE s

\* flagAtCursor that flags whatever is not flagged, Open cells included.
flagAtCursorAnyState(s) ==
    IF s[Cursor] = FLAGGED THEN [s EXCEPT ![Cursor] = CLOSED]
    ELSE [s EXCEPT ![Cursor] = FLAGGED]

flagAtCursor(s) ==
    IF s[Cursor] = CLOSED THEN [s EXCEPT ![Cursor] = FLAGGED]
    ELSE IF s[Cursor] = FLAGGED THEN [s EXCEPT ![Cursor] = CLOSED]
    ELSE s

\* revealMines that opens the Closed mines and leaves the Flagged ones.
revealMinesClosedOnly(s, c) ==
    [i \in Indices |-> IF c[i] = MINE /\ s[i] = CLOSED THEN OPEN ELSE s[i]]

revealMines(s, c) == [i \in Indices |-> IF c[i] = MINE THEN OPEN ELSE s[i]]

isMineOpen == \E i \in Indices : cells[i] = MINE /\ states[i] = OPEN

\* performAction leaving *first set.
FirstStaysSet == TRUE

\* *first = false; after generateAtCursor returns.
FirstAfterPlacement == FALSE

\* performAction without the numClosed == numMines test.
ContinueAlways(nc, nm) == TRUE

\* The test off by one: stop while one more cell than there are mines is closed.
ContinueOffByOne(nc, nm) == nc > nm + 1

\* The tail of performAction: false when numClosed == numMines.
Continue(nc, nm) == nc # nm

\* running = performAction(...); the while loop ends when it is false.
Return(r) ==
    /\ running' = r
    /\ pc' = IF r THEN "loop" ELSE "done"

\* read one byte, tolower it, and enter performAction.  At pc = "act" read has
\* returned 0 at end of input and stored nothing, so `action` still holds the
\* previous byte.
Read(a) ==
    /\ IF pc = "act"
       THEN tolower(action) = a
       ELSE pc = "loop" /\ ~eof /\ \E b \in InputBytes : tolower(b) = a
    /\ action' = a
    /\ prevStates' = states
    /\ eof' = eof

\* The (row, col) pairs printField hands to stateAtIndex and, through
\* printOpenTile and countNeighborMines, to cellAtIndex.
RenderCalls ==
    LET grid == (0 .. rows - 1) \X (0 .. cols - 1) IN
    grid \cup UNION {NeighborCalls(g[1], g[2]) : g \in
        {h \in grid : /\ states[cellAtIndex(h[1], h[2])] = OPEN
                      /\ cells[cellAtIndex(h[1], h[2])] # MINE}}

\* The (row, col) pairs the next performAction can hand to cellAtIndex and
\* stateAtIndex: the cursor for open and flag, and during the first Open the
\* draws rand() % rows, rand() % cols and the neighbours of the cursor.
ActionCalls ==
    {<<cursorRow, cursorCol>>} \cup
    (IF first
     THEN NeighborCalls(cursorRow, cursorCol) \cup
          {<<x % rows, y % cols>> : x \in 0 .. rows * cols, y \in 0 .. rows * cols}
     ELSE {})

\* ------------------------------------------------------------ initial state
\* fieldCreate, then fieldResize(field, ROWS, COLS) in runGame.
Init ==
    /\ \E d \in Dimensions : rows = d[1] /\ cols = d[2]
    /\ minePercentage \in Percentages
    /\ cells = [i \in Indices |-> EMPTY]
    /\ states = [i \in Indices |-> CLOSED]
    /\ cursorRow = 0
    /\ cursorCol = 0
    /\ numMines = 0
    /\ numClosed = rows * cols
    /\ first = TRUE
    /\ running = TRUE
    /\ action = NUL
    /\ pc = "loop"
    /\ eof = FALSE
    /\ prevStates = states

\* ------------------------------------------------------------ actions
\* case 'w': if (field->cursorRow > 0) field->cursorRow--;
moveUp(r) == IF r > 0 THEN r - 1 ELSE r

\* case 's' with the bound off by one.
moveDownOffByOne(r) == IF r < rows THEN r + 1 ELSE r

\* case 's': if (field->cursorRow < field->rows - 1) field->cursorRow++;
moveDown(r) == IF r < rows - 1 THEN r + 1 ELSE r

\* case 'a': if (field->cursorCol > 0) field->cursorCol--;
moveLeft(c) == IF c > 0 THEN c - 1 ELSE c

\* case 'd': if (field->cursorCol < field->cols - 1) field->cursorCol++;
moveRight(c) == IF c < cols - 1 THEN c + 1 ELSE c

MoveUp ==
    /\ Read("w")
    /\ cursorRow' = moveUp(cursorRow)
    /\ Return(Continue(numClosed, numMines))
    /\ UNCHANGED <<rows, cols, minePercentage, cells, states, cursorCol,
                   numMines, numClosed, first>>

MoveDown ==
    /\ Read("s")
    /\ cursorRow' = moveDown(cursorRow)
    /\ Return(Continue(numClosed, numMines))
    /\ UNCHANGED <<rows, cols, minePercentage, cells, states, cursorCol,
                   numMines, numClosed, first>>

MoveLeft ==
    /\ Read("a")
    /\ cursorCol' = moveLeft(cursorCol)
    /\ Return(Continue(numClosed, numMines))
    /\ UNCHANGED <<rows, cols, minePercentage, cells, states, cursorRow,
                   numMines, numClosed, first>>

MoveRight ==
    /\ Read("d")
    /\ cursorCol' = moveRight(cursorCol)
    /\ Return(Continue(numClosed, numMines))
    /\ UNCHANGED <<rows, cols, minePercentage, cells, states, cursorRow,
                   numMines, numClosed, first>>

\* if (openAtCursor(field) == MINE) { revealMines(field); return false; }
\* and the tail of performAction, on the placement c with nm mines.
OpenCell(c, nm) ==
    LET o == openAtCursor(states, c, numClosed) IN
    /\ numClosed' = o.numClosed
    /\ IF o.cell = MINE
       THEN /\ states' = revealMines(o.states, c)
            /\ Return(FALSE)
       ELSE /\ states' = o.states
            /\ Return(Continue(o.numClosed, nm))

\* case ' ' with *first false.
Open ==
    /\ Read(" ")
    /\ ~first
    /\ OpenCell(cells, numMines)
    /\ UNCHANGED <<rows, cols, minePercentage, cells, cursorRow, cursorCol,
                   numMines, first>>

\* case ' ' with *first true: performAction calls generateAtCursor.
OpenFirst ==
    /\ Read(" ")
    /\ first
    /\ pc' = "generate"
    /\ UNCHANGED <<rows, cols, minePercentage, cells, states, cursorRow,
                   cursorCol, numMines, numClosed, first, running>>

\* generateMines exits the program when the percentage is above the ceiling.
GenerateError ==
    /\ pc = "generate"
    /\ minePercentage > MAX_MINE_PERCENTAGE
    /\ pc' = "error"
    /\ UNCHANGED <<rows, cols, minePercentage, cells, states, cursorRow,
                   cursorCol, numMines, numClosed, first, running, action,
                   eof, prevStates>>

\* One iteration of generateAtCursor's do-while whose placement is rejected.
GenerateRetry ==
    /\ pc = "generate"
    /\ minePercentage <= MAX_MINE_PERCENTAGE
    /\ numMines' = MineCount(minePercentage)
    /\ \E c \in generateMines(minePercentage) :
          /\ RetryPlacement(c)
          /\ cells' = c
    /\ UNCHANGED <<rows, cols, minePercentage, states, cursorRow, cursorCol,
                   numClosed, first, running, action, pc, eof, prevStates>>

\* The last iteration: the placement is accepted, *first = false, and
\* performAction goes on to open the cell at the cursor.
GenerateDone ==
    /\ pc = "generate"
    /\ minePercentage <= MAX_MINE_PERCENTAGE
    /\ numMines' = MineCount(minePercentage)
    /\ \E c \in generateMines(minePercentage) :
          /\ ~RetryPlacement(c)
          /\ cells' = c
          /\ OpenCell(c, MineCount(minePercentage))
    /\ first' = FirstAfterPlacement
    /\ UNCHANGED <<rows, cols, minePercentage, cursorRow, cursorCol, action,
                   eof, prevStates>>

Flag ==
    /\ Read("f")
    /\ states' = flagAtCursor(states)
    /\ Return(Continue(numClosed, numMines))
    /\ UNCHANGED <<rows, cols, minePercentage, cells, cursorRow, cursorCol,
                   numMines, numClosed, first>>

\* default: break;  Every byte that is none of the six keys, the initial 0
\* included.
Unknown ==
    /\ \E a \in {"q", NUL} : Read(a)
    /\ Return(Continue(numClosed, numMines))
    /\ UNCHANGED <<rows, cols, minePercentage, cells, states, cursorRow,
                   cursorCol, numMines, numClosed, first>>

Next ==
    \/ MoveUp
    \/ MoveDown
    \/ MoveLeft
    \/ MoveRight
    \/ Open
    \/ OpenFirst
    \/ GenerateError
    \/ GenerateRetry
    \/ GenerateDone
    \/ Flag
    \/ Unknown

Spec == Init /\ [][Next]_vars

\* The random placement is fair: an acceptable placement that keeps being
\* possible is eventually drawn, and the program keeps running.
FairSpec == Spec /\ WF_vars(Next) /\ SF_vars(GenerateDone)

\* The user closes standard input.
CloseInput ==
    /\ pc \in {"loop", "generate"}
    /\ ~eof
    /\ eof' = TRUE
    /\ UNCHANGED <<rows, cols, minePercentage, cells, states, cursorRow,
                   cursorCol, numMines, numClosed, first, running, action, pc,
                   prevStates>>

\* read(STDIN_FILENO, &action, 1) returns 0 at once when the input is closed.
ReadEof ==
    /\ pc = "loop"
    /\ eof
    /\ pc' = "act"
    /\ UNCHANGED <<rows, cols, minePercentage, cells, states, cursorRow,
                   cursorCol, numMines, numClosed, first, running, action, eof,
                   prevStates>>

NextEof == Next \/ CloseInput \/ ReadEof

\* Games in which the input may be closed; the program keeps running.
FairSpecEof ==
    Init /\ [][NextEof]_vars /\ WF_vars(Next \/ ReadEof) /\ SF_vars(GenerateDone)

\* ------------------------------------------------------------ properties
NoneOpen(s) == \A i \in Indices : s[i] # OPEN

AllOpen(s) == \A i \in Indices : s[i] = OPEN

NumMineCells == Cardinality({i \in Indices : cells[i] = MINE})

\* performAction has returned from the action held in `action`.
Returned == pc \in {"loop", "done"} /\ action # NUL

\* The last action changed a Mine cell at the cursor from Closed to Open.
OpenedMine ==
    /\ action = " "
    /\ prevStates[Cursor] = CLOSED
    /\ states[Cursor] = OPEN
    /\ cells[Cursor] = MINE

\* C1: after every action that returned, performAction returned stop
\* (running is false) exactly when the action opened a Closed Mine cell at the
\* cursor, or numClosed equals numMines with no Mine cell Open; otherwise it
\* returned continue.
C1_StopIffLossOrWin ==
    Returned =>
        (~running <=> (OpenedMine \/ (numClosed = numMines /\ ~isMineOpen)))

\* A game stopped by opening a mine.
C1_Witness == Returned /\ ~running /\ OpenedMine

\* C2: when the loop has ended and no mine is Open (a win is printed), every
\* Empty cell is Open and no Mine cell is Open; when a mine is Open (a loss is
\* printed), the last action was an Open on a Closed Mine cell at the cursor.
C2_ResultMatchesField ==
    pc = "done" =>
        IF ~isMineOpen
        THEN \A i \in Indices :
                /\ cells[i] = EMPTY => states[i] = OPEN
                /\ cells[i] = MINE => states[i] # OPEN
        ELSE OpenedMine

\* A win on a board that holds mines.
C2_Witness == pc = "done" /\ ~isMineOpen /\ NumMineCells >= 1

\* C3: the first cell whose state becomes Open is Empty and has no Mine
\* neighbour, and the action that opens it does not lose the game.
C3_FirstOpenedCellSafe ==
    (Returned /\ NoneOpen(prevStates) /\ ~NoneOpen(states)) =>
        /\ cells[Cursor] = EMPTY
        /\ countNeighborMines(cells, cursorRow, cursorCol) = 0
        /\ ~isMineOpen

\* C4: the step on which generateAtCursor completes leaves the cursor cell
\* Empty with countNeighborMines 0 at the cursor.
C4_PlacementSafeAtCursor ==
    [][(first /\ ~first') =>
          /\ cells'[cellAtIndex(cursorRow', cursorCol')] = EMPTY
          /\ countNeighborMines(cells', cursorRow', cursorCol') = 0]_vars

\* Placement has completed on a grid of two rows with two mines.
C4_Witness == ~first /\ rows >= 2 /\ NumMineCells >= 2

\* C5: the step on which an Open action on a Flagged cursor cell returns
\* changes no cell's state or content, nor numMines, nor numClosed.
C5_OpenOnFlaggedIsNoOp ==
    [][(action' = " " /\ states[Cursor] = FLAGGED /\ pc' \in {"loop", "done"}) =>
          UNCHANGED <<cells, states, numMines, numClosed>>]_vars

\* The mine count floor(R*C*p/100) is 0 and the percentage is accepted.
NoMines == minePercentage <= MAX_MINE_PERCENTAGE /\ MineCount(minePercentage) = 0

\* C6 as claimed: with a mine count of 0, the first Open action on a Closed
\* cell returns stop and leaves every cell Open.
C6_FirstOpenWins ==
    (Returned /\ NoMines /\ action = " " /\ NoneOpen(prevStates)
        /\ prevStates[Cursor] = CLOSED) =>
        (~running /\ AllOpen(states))

\* C6 as amended: with a mine count of 0, an Open action on a Closed cell
\* opens the cursor cell only, and returns stop exactly when every cell is
\* then Open; the first one returns stop only on the 1x1 grid.
C6_OpenWinsOnLastCell ==
    (Returned /\ NoMines /\ action = " " /\ prevStates[Cursor] = CLOSED) =>
        /\ states = [prevStates EXCEPT ![Cursor] = OPEN]
        /\ ~running <=> AllOpen(states)
        /\ NoneOpen(prevStates) => (~running <=> rows * cols = 1)

\* A game without mines won on a grid of more than one cell.
C6_Witness ==
    /\ Returned /\ NoMines /\ action = " " /\ prevStates[Cursor] = CLOSED
    /\ ~running /\ rows * cols > 1

\* C7: once placement has completed, exactly floor(R*C*p/100) cells are Mine,
\* and in every state numMines is the number of Mine cells.
C7_MineCount ==
    /\ numMines = NumMineCells
    /\ ~first => /\ minePercentage <= MAX_MINE_PERCENTAGE
                 /\ NumMineCells = (rows * cols * minePercentage) \div 100

\* Placement has completed with more than one mine.
C7_Witness == ~first /\ NumMineCells >= 2

\* C8: while the first Open has not been pressed every cell is Empty, and once
\* the first Open has completed no step changes the content of a cell.
C8_ContentSetOnce ==
    [][/\ (first /\ pc = "loop") => \A i \in Indices : cells[i] = EMPTY
       /\ ~first => cells' = cells]_vars

\* After placement a mine has been flagged and another one opened and revealed.
C8_Witness ==
    /\ ~first
    /\ pc = "done"
    /\ isMineOpen
    /\ \E i \in Indices : cells[i] = MINE /\ prevStates[i] = FLAGGED

\* C9: numClosed is the number of cells that are not Open.
C9_NumClosedCounts ==
    numClosed = Cardinality({i \in Indices : states[i] # OPEN})

\* C10: a Flag action turns a Closed cursor cell Flagged and a Flagged one
\* Closed, leaves an Open one and every other cell alone, changes nothing else
\* and returns continue; the second of two consecutive Flag actions restores
\* the states the field had before the first.
C10_FlagToggles ==
    [][(pc = "loop" /\ action' = "f") =>
          /\ \A i \in Indices \ {Cursor} : states'[i] = states[i]
          /\ states[Cursor] = CLOSED => states'[Cursor] = FLAGGED
          /\ states[Cursor] = FLAGGED => states'[Cursor] = CLOSED
          /\ states[Cursor] = OPEN => states'[Cursor] = OPEN
          /\ UNCHANGED <<cells, cursorRow, cursorCol, numClosed, numMines>>
          /\ running' /\ pc' = "loop"
          /\ action = "f" => states' = prevStates]_vars

\* A flag has just been taken off a cell of a field with mines.
C10_Witness ==
    /\ action = "f"
    /\ prevStates[Cursor] = FLAGGED
    /\ states[Cursor] = CLOSED
    /\ NumMineCells >= 1

\* C11: the cursor is inside the grid before and after every step; a move
\* toward an edge the cursor is on leaves it where it is, and any other move
\* changes exactly one coordinate by exactly 1.
C11_CursorClamped ==
    [][/\ cursorRow \in 0 .. rows - 1 /\ cursorCol \in 0 .. cols - 1
       /\ cursorRow' \in 0 .. rows - 1 /\ cursorCol' \in 0 .. cols - 1
       /\ (pc = "loop" /\ action' \in {"w", "s", "a", "d"}) =>
            LET atEdge ==
                    \/ action' = "w" /\ cursorRow = 0
                    \/ action' = "s" /\ cursorRow = rows - 1
                    \/ action' = "a" /\ cursorCol = 0
                    \/ action' = "d" /\ cursorCol = cols - 1
            IN  IF atEdge
                THEN cursorRow' = cursorRow /\ cursorCol' = cursorCol
                ELSE /\ action' = "w" => (cursorRow' = cursorRow - 1 /\ cursorCol' = cursorCol)
                     /\ action' = "s" => (cursorRow' = cursorRow + 1 /\ cursorCol' = cursorCol)
                     /\ action' = "a" => (cursorCol' = cursorCol - 1 /\ cursorRow' = cursorRow)
                     /\ action' = "d" => (cursorCol' = cursorCol + 1 /\ cursorRow' = cursorRow)
      ]_vars

\* The cursor has moved down and right to the last cell of a grid of two rows.
C11_Witness ==
    /\ action \in {"s", "d"}
    /\ rows >= 2 /\ cols >= 2
    /\ cursorRow = rows - 1 /\ cursorCol = cols - 1

\* C12: after an Open has opened a Mine, every Mine cell is Open, isMineOpen
\* is true, every Empty cell has the state it had before the action, and the
\* action returned stop.
C12_LossRevealsMines ==
    (Returned /\ OpenedMine) =>
        /\ \A i \in Indices : cells[i] = MINE => states[i] = OPEN
        /\ isMineOpen
        /\ \A i \in Indices : cells[i] = EMPTY => states[i] = prevStates[i]
        /\ ~running /\ pc = "done"

\* A mine was opened while another mine was Flagged, one Empty cell was
\* Flagged and one Closed.
C12_Witness ==
    /\ Returned /\ OpenedMine
    /\ \E i \in Indices \ {Cursor} : cells[i] = MINE /\ prevStates[i] = FLAGGED
    /\ \E i \in Indices : cells[i] = EMPTY /\ states[i] = FLAGGED
    /\ \E i \in Indices : cells[i] = EMPTY /\ states[i] = CLOSED

\* C13: a game configured with a percentage above the ceiling never processes
\* a player action.
C13_RejectedAtEntry ==
    minePercentage > MAX_MINE_PERCENTAGE => action = NUL

\* C14: once the input is closed the game loop eventually ends.
C14_EofTerminates == eof ~> (pc = "done")

\* C15: the step on which an Open of a Closed Empty cursor cell returns opens
\* that cell, changes no other cell's state and takes 1 off numClosed.
C15_OpenOpensOneCell ==
    [][(action' = " " /\ pc' \in {"loop", "done"} /\ states[Cursor] = CLOSED
            /\ cells'[Cursor] = EMPTY) =>
          /\ states' = [states EXCEPT ![Cursor] = OPEN]
          /\ numClosed' = numClosed - 1]_vars

\* An Empty cell without Mine neighbours was opened on a field with mines, and
\* a cell next to it is still Closed.
C15_Witness ==
    /\ Returned /\ action = " "
    /\ prevStates[Cursor] = CLOSED /\ states[Cursor] = OPEN
    /\ cells[Cursor] = EMPTY
    /\ countNeighborMines(cells, cursorRow, cursorCol) = 0
    /\ NumMineCells >= 1
    /\ \E n \in NeighborCalls(cursorRow, cursorCol) :
          states[cellAtIndex(n[1], n[2])] = CLOSED

\* C16: mine placement, once entered with an accepted percentage, eventually
\* completes.
C16_PlacementCompletes ==
    (pc = "generate" /\ minePercentage <= MAX_MINE_PERCENTAGE) ~> (pc # "generate")

\* C17: a cell that is Open is Open after every step.
C17_OpenIsTerminal ==
    [][\A i \in Indices : states[i] = OPEN => states'[i] = OPEN]_vars

\* Flag was pressed on an Open cell.
C17_Witness ==
    /\ Returned /\ action = "f"
    /\ prevStates[Cursor] = OPEN /\ states[Cursor] = OPEN

\* C18: every (row, col) handed to cellAtIndex or stateAtIndex by rendering,
\* open, flag, placement and neighbour counting has row < R and col < C.
C18_IndexInBounds ==
    \A rc \in RenderCalls \cup ActionCalls :
        /\ 0 <= rc[1] /\ rc[1] < rows
        /\ 0 <= rc[2] /\ rc[2] < cols

\* The cursor is on the last cell of a grid of two rows whose first cell is
\* Open: neighbours fall off both ends of the grid.
C18_Witness ==
    /\ rows >= 2 /\ cols >= 2
    /\ cursorRow = rows - 1 /\ cursorCol = cols - 1
    /\ states[0] = OPEN /\ cells[0] = EMPTY
    /\ NumMineCells >= 1

\* C19: for every cell (r, c) of the grid, countNeighborMines(r, c) is the
\* number of the eight positions (r+dr, c+dc) that lie inside the grid and
\* hold a Mine, computed over the integers.
C19_NeighborCount ==
    \A r \in 0 .. rows - 1 : \A c \in 0 .. cols - 1 :
        countNeighborMines(cells, r, c) =
            Cardinality({d \in (Deltas \X Deltas) \ {<<0, 0>>} :
                /\ 0 <= r + d[1] /\ r + d[1] < rows
                /\ 0 <= c + d[2] /\ c + d[2] < cols
                /\ cells[(r + d[1]) * cols + (c + d[2])] = MINE})

\* A placement with a mine under the cursor, in the first row of a grid of two
\* rows, and two more mines around it.
C19_Witness ==
    /\ pc = "generate"
    /\ rows >= 2
    /\ cells[Cursor] = MINE
    /\ countNeighborMines(cells, cursorRow, cursorCol) >= 2

\* C20: a move or an unknown byte changes no cell's state or content, nor
\* numClosed, numMines or the first-move flag, and returns continue; no step of
\* an Open or a Flag changes the cursor.
C20_MovesOnlyMoveCursor ==
    [][/\ (pc = "loop" /\ action' \in {"w", "s", "a", "d", "q", NUL}) =>
            /\ UNCHANGED <<cells, states, numClosed, numMines, first>>
            /\ running' /\ pc' = "loop"
       /\ action' \notin {"w", "s", "a", "d"} =>
            UNCHANGED <<cursorRow, cursorCol>>]_vars

\* An unknown byte was read after the first cell was opened on a field with
\* mines, away from the first cell.
C20_Witness ==
    /\ Returned /\ action = "q"
    /\ ~first /\ NumMineCells >= 1
    /\ Cursor # 0

====
